---- MODULE Spec2Model ----
(***************************************************************************)
(* A model of src/src/scheduler.py: the greedy two-phase (DRILL, then      *)
(* FRAC) assignment of rigs and frac crews to well batches.                *)
(*                                                                         *)
(* Dates are whole days counted from an arbitrary day 0, so                *)
(* `d + timedelta(days=n)' is d + n.  Python's None is the value None      *)
(* below; every date, duration, lag and priority of the model is >= 0.     *)
(* A datetime is always truthy in Python, an int is truthy iff it is not   *)
(* 0: the two tests the code writes as `if x:' / `if not x:' are IsSet     *)
(* (dates) and Truthy (ints).                                              *)
(***************************************************************************)
EXTENDS Integers, Sequences, FiniteSets, TLC

VARIABLES
    well_batches,     \* Scheduler.well_batches: sequence of WellBatch records
    rigs,             \* Scheduler.rigs: sequence of Rig records
    frac_crews,       \* Scheduler.frac_crews: sequence of FracCrew records
    frac_lag,         \* Scheduler.frac_lag: None or days
    schedule_events,  \* Scheduler.schedule_events: sequence of ScheduleEvent
    printed,          \* the lines schedule() has written to stdout
    pc,               \* "ready", "simops", "drill", "frac", "done": where
                      \* schedule() is
    i,                \* index in well_batches of the batch of the current loop
    exc,              \* NoExc, or the exception the last call raised
    returned,         \* what the last get_schedule_events() returned
    simops_pairs      \* Scheduler.simops_pairs (<<>> also while not assigned)

vars == <<well_batches, rigs, frac_crews, frac_lag, schedule_events,
          printed, pc, i, exc, returned, simops_pairs>>

----------------------------------------------------------------------------
(* Bounds of the model.                                                    *)

MaxDay == 1        \* dates of the inputs are days 0..MaxDay
MaxDur == 2        \* durations of the inputs are 0..MaxDur days
MaxLag == 2        \* a configured frac lag is 0..MaxLag days
MaxPriority == 2   \* priorities of the inputs are 0..MaxPriority
MaxPrinted == 4    \* schedule() is not called again after this many lines

None == -1

Days == 0..MaxDay
OptDays == {None} \cup Days
Durations == 0..MaxDur
Lags == {None} \cup (0..MaxLag)
Priorities == {None} \cup (0..MaxPriority)

----------------------------------------------------------------------------
(* Python values.                                                          *)

IsSet(d) == d # None
Truthy(n) == n # None /\ n # 0

\* An argument whose Python type decides what the code does with it: a
\* datetime (a day), an int, or None.
PyDate(d) == [type |-> "datetime", value |-> d]
PyInt(n) == [type |-> "int", value |-> n]
PyNone == [type |-> "NoneType", value |-> None]

\* `if x:' for such an argument.
PyTruthy(x) == x.type = "datetime" \/ (x.type = "int" /\ x.value # 0)
Max(a, b) == IF a >= b THEN a ELSE b

NoExc == "none"
ExcFracBeforeDrill == "Exception: Cannot frac before drill"
ExcFracBeforeDrillEnd == "Exception: Frac cannot start before drill end"
ExcFracLag == "Exception: Set frac lag using set_grac_lag() before scheduling"
ExcNoneDrillEnd == "TypeError: NoneType + timedelta"
ExcTimedelta == "TypeError: unsupported type for timedelta days component"
ExcNotRigOrCrew == "Exception: Resource is neither rig or frac crew"

----------------------------------------------------------------------------
(* Resource (Rig | FracCrew) and WellBatch records.  `name' is the         *)
(* position the object had in the caller's list, so it also tells the      *)
(* input order.                                                            *)

Resource(kind, name, start_date, end_date) ==
    [kind |-> kind, name |-> name, start_date |-> start_date,
     end_date |-> end_date]

Rig(name, start_date, end_date) == Resource("Rig", name, start_date, end_date)

FracCrew(name, start_date, end_date) ==
    Resource("FracCrew", name, start_date, end_date)

\* A setter that also closes the resource's availability window.
set_resource_availability_SetsEnd(resource, start_date) ==
    [resource EXCEPT !.start_date = start_date, !.end_date = start_date]

\* Resource.set_resource_availability: only the cursor moves, the end_date
\* argument is ignored.
set_resource_availability(resource, start_date) ==
    [resource EXCEPT !.start_date = start_date]

\* The state of a WellBatch after its constructor: the aggregates as given,
\* the status fields unset.
WellBatch(name, drill_duration, frac_duration, allow, due_date, priority) ==
    [name |-> name,
     drill_duration |-> drill_duration,
     frac_duration |-> frac_duration,
     date_allow_to_drill |-> allow,
     due_date |-> due_date,
     priority |-> priority,
     is_drilled |-> FALSE, drill_start |-> None, drill_end |-> None,
     is_fraced |-> FALSE, frac_start |-> None, frac_end |-> None]

\* set_drill_status that forgets the is_drilled flag.
set_drill_status_NoFlag(b, drill_start) ==
    [b EXCEPT !.drill_start = drill_start,
              !.drill_end = drill_start + b.drill_duration]

set_drill_status(b, drill_start) ==
    [b EXCEPT !.is_drilled = TRUE,
              !.drill_start = drill_start,
              !.drill_end = drill_start + b.drill_duration]

\* set_frac_status without its second check (start against drill_end).
set_frac_status_NoOrderCheck(b, frac_start) ==
    IF ~b.is_drilled
    THEN [batch |-> b, exc |-> ExcFracBeforeDrill]
    ELSE [batch |-> [b EXCEPT !.is_fraced = TRUE,
                              !.frac_start = frac_start,
                              !.frac_end = frac_start + b.frac_duration],
          exc |-> NoExc]

\* WellBatch.set_frac_status: the batch after the call and what it raised.
set_frac_status(b, frac_start) ==
    IF ~b.is_drilled
    THEN [batch |-> b, exc |-> ExcFracBeforeDrill]
    ELSE IF frac_start < b.drill_end
    THEN [batch |-> b, exc |-> ExcFracBeforeDrillEnd]
    ELSE [batch |-> [b EXCEPT !.is_fraced = TRUE,
                              !.frac_start = frac_start,
                              !.frac_end = frac_start + b.frac_duration],
          exc |-> NoExc]

\* WellBatch.__lt__
BatchLt(self, other) ==
    IF Truthy(self.priority) /\ Truthy(other.priority)
    THEN self.priority < other.priority
    ELSE IF Truthy(self.priority) /\ ~Truthy(other.priority) THEN TRUE
    ELSE IF ~Truthy(self.priority) /\ Truthy(other.priority) THEN FALSE
    ELSE IF IsSet(self.date_allow_to_drill) /\ IsSet(other.date_allow_to_drill)
    THEN self.date_allow_to_drill < other.date_allow_to_drill
    ELSE IF IsSet(self.date_allow_to_drill) /\ ~IsSet(other.date_allow_to_drill)
    THEN TRUE
    ELSE IF ~IsSet(self.date_allow_to_drill) /\ IsSet(other.date_allow_to_drill)
    THEN FALSE
    ELSE TRUE

----------------------------------------------------------------------------
(* list.sort() of CPython 3.11 on a list shorter than 64 elements, with    *)
(* the elements' __lt__ as the only comparison: the leading natural run is *)
(* found by count_run (a strictly descending run is reversed in place),    *)
(* and the remaining elements are inserted one by one by binarysort.       *)
(* well_batches.sort() runs it with WellBatch.__lt__, which is not a       *)
(* strict order, so the steps matter.                                      *)

RECURSIVE DescendingRun(_, _)
DescendingRun(s, n) ==
    IF n < Len(s) /\ BatchLt(s[n + 1], s[n]) THEN DescendingRun(s, n + 1) ELSE n

RECURSIVE AscendingRun(_, _)
AscendingRun(s, n) ==
    IF n < Len(s) /\ ~BatchLt(s[n + 1], s[n]) THEN AscendingRun(s, n + 1) ELSE n

count_run(s) ==
    IF Len(s) = 1 THEN [n |-> 1, descending |-> FALSE]
    ELSE IF BatchLt(s[2], s[1])
    THEN [n |-> DescendingRun(s, 2), descending |-> TRUE]
    ELSE [n |-> AscendingRun(s, 2), descending |-> FALSE]

reverse_slice(s, n) ==
    [k \in 1..Len(s) |-> IF k <= n THEN s[n + 1 - k] ELSE s[k]]

\* The place binarysort finds for pivot in s[l .. r-1] (a do-while loop).
RECURSIVE BinarySearch(_, _, _, _)
BinarySearch(s, pivot, l, r) ==
    LET p == l + ((r - l) \div 2)
        l2 == IF BatchLt(pivot, s[p]) THEN l ELSE p + 1
        r2 == IF BatchLt(pivot, s[p]) THEN p ELSE r
    IN  IF l2 < r2 THEN BinarySearch(s, pivot, l2, r2) ELSE l2

\* binarysort: s[1 .. start-1] is the run; insert s[start], s[start+1], ...
RECURSIVE binarysort(_, _)
binarysort(s, start) ==
    IF start > Len(s) THEN s
    ELSE LET pivot == s[start]
             l == BinarySearch(s, pivot, 1, start)
             t == [k \in 1..Len(s) |->
                     IF k < l \/ k > start THEN s[k]
                     ELSE IF k = l THEN pivot
                     ELSE s[k - 1]]
         IN  binarysort(t, start + 1)

\* self.well_batches.sort()
SortBatches(s) ==
    IF Len(s) < 2 THEN s
    ELSE LET run == count_run(s)
             t == IF run.descending THEN reverse_slice(s, run.n) ELSE s
         IN  binarysort(t, run.n + 1)

\* A pool that is never re-sorted.
SortByStart_Unsorted(s) == s

\* pool.sort(key=lambda x: x.start_date): the keys are dates, so the result
\* is the stable ascending order; computed by stable insertion.
RECURSIVE SortByStart(_)
SortByStart(s) ==
    IF Len(s) < 2 THEN s
    ELSE LET n == Len(s)
             head == SortByStart(SubSeq(s, 1, n - 1))
             x == s[n]
             before == SelectSeq(head, LAMBDA r : r.start_date <= x.start_date)
             after == SelectSeq(head, LAMBDA r : r.start_date > x.start_date)
         IN  before \o <<x>> \o after

----------------------------------------------------------------------------
(* ScheduleEvent and the lines schedule() prints.                          *)

ResourceRef(resource) == <<resource.kind, resource.name>>

\* ScheduleEvent.__init__(resource, well_batch, event_start, event_duration,
\* event_end), event_start a day, event_duration and event_end typed
\* arguments: a truthy event_end is kept; a falsy one (None, or the int 0)
\* makes it compute event_start + timedelta(event_duration), which raises
\* TypeError unless event_duration is an int.  The record keeps the
\* arguments' values (a day or a number of days).
ScheduleEvent(resource, well_batch, event_start, event_duration, event_end) ==
    IF PyTruthy(event_end)
    THEN [event |-> <<[resource |-> ResourceRef(resource),
                       well_batch |-> well_batch.name,
                       event_start |-> event_start,
                       event_duration |-> event_duration.value,
                       event_end |-> event_end.value]>>,
          exc |-> NoExc]
    ELSE IF event_duration.type = "int"
    THEN [event |-> <<[resource |-> ResourceRef(resource),
                       well_batch |-> well_batch.name,
                       event_start |-> event_start,
                       event_duration |-> event_duration.value,
                       event_end |-> event_start + event_duration.value]>>,
          exc |-> NoExc]
    ELSE [event |-> <<>>, exc |-> ExcTimedelta]

\* "<resource> assigned to <batch> start <start> end <end>"
AssignedLine(resource, well_batch, start, end) ==
    [msg |-> "assigned", resource |-> ResourceRef(resource),
     well_batch |-> well_batch.name, start |-> start, end |-> end]

\* "<batch> cannot be scheduled due to timing constraints"
CannotLine(well_batch) ==
    [msg |-> "cannot", resource |-> <<"", None>>,
     well_batch |-> well_batch.name, start |-> None, end |-> None]

----------------------------------------------------------------------------
(* Scheduler._is_valid_assignment                                          *)

\* The start the check assumes, for a rig and for a crew alike.
CheckStart(resource, well_batch) ==
    IF IsSet(well_batch.date_allow_to_drill)
    THEN Max(resource.start_date, well_batch.date_allow_to_drill)
    ELSE resource.start_date

\* The exception of the branch on the resource's type (lines 258-266): a
\* crew's check raises when `not self.frac_lag', the check of a resource
\* that is neither a Rig nor a FracCrew always raises.
ValidExc(resource, lag) ==
    IF resource.kind = "Rig" THEN NoExc
    ELSE IF resource.kind = "FracCrew"
    THEN IF ~Truthy(lag) THEN ExcFracLag ELSE NoExc
    ELSE ExcNotRigOrCrew

ValidRaises(resource, lag) == ValidExc(resource, lag) # NoExc

\* The end the check assumes, for a resource whose check does not raise.
CheckEnd(resource, well_batch) ==
    IF resource.kind = "Rig"
    THEN CheckStart(resource, well_batch) + well_batch.drill_duration
    ELSE CheckStart(resource, well_batch) + well_batch.frac_duration

\* The check: what it raises, or the value it returns.
is_valid_assignment(resource, well_batch, lag) ==
    IF ValidRaises(resource, lag)
    THEN [value |-> FALSE, exc |-> ValidExc(resource, lag)]
    ELSE [value |->
            IF ~IsSet(resource.end_date) /\ ~IsSet(well_batch.due_date)
            THEN TRUE
            ELSE IF IsSet(resource.end_date)
                    /\ CheckEnd(resource, well_batch) > resource.end_date
            THEN FALSE
            ELSE IF IsSet(well_batch.due_date)
                    /\ CheckEnd(resource, well_batch) > well_batch.due_date
            THEN FALSE
            ELSE TRUE,
          exc |-> NoExc]

\* `for resource in pool: if self._is_valid_assignment(...)': k is the
\* index of the resource the scan stops at, 0 when it runs to the end of
\* the pool; exc is what the check of pool[k] raised.
RECURSIVE Scan(_, _, _, _)
Scan(pool, well_batch, lag, k) ==
    IF k > Len(pool) THEN [k |-> 0, exc |-> NoExc]
    ELSE LET r == is_valid_assignment(pool[k], well_batch, lag)
         IN  IF r.exc # NoExc THEN [k |-> k, exc |-> r.exc]
             ELSE IF r.value THEN [k |-> k, exc |-> NoExc]
             ELSE Scan(pool, well_batch, lag, k + 1)

\* A scan that keeps the last feasible resource instead of stopping at the
\* first.
FirstValid_Last(pool, well_batch, lag) ==
    LET f == Scan(pool, well_batch, lag, 1)
        F == {k \in 1..Len(pool) :
                is_valid_assignment(pool[k], well_batch, lag).value}
    IN  IF f.exc # NoExc \/ F = {} THEN f
        ELSE [k |-> CHOOSE k \in F : \A o \in F : k >= o, exc |-> NoExc]

FirstValid(pool, well_batch, lag) == Scan(pool, well_batch, lag, 1)

\* No turnaround day: the resource is offered again on the day the work ends.
BusyUntil_NoTurnaround(end) == end

\* The day a resource is offered again after work that ends on `end'.
BusyUntil(end) == end + 1

----------------------------------------------------------------------------
(* One pass of the DRILL loop for one batch (lines 190-214).               *)

\* A drill start that ignores the allow-to-drill date.
DrillStart_RigOnly(rig, well_batch) == rig.start_date

DrillStart(rig, well_batch) ==
    IF IsSet(well_batch.date_allow_to_drill)
    THEN Max(rig.start_date, well_batch.date_allow_to_drill)
    ELSE rig.start_date

\* A DRILL pass that assigns the rig and sets the status but appends no
\* event to the log.
DrillIteration_NoEvent(pool, well_batch, lag) ==
    LET f == FirstValid(pool, well_batch, lag)
        k == f.k
    IN  IF f.exc # NoExc
        THEN [pool |-> pool, batch |-> well_batch, events |-> <<>>,
              lines |-> <<>>, exc |-> f.exc]
        ELSE IF k = 0
        THEN [pool |-> SortByStart(pool), batch |-> well_batch,
              events |-> <<>>, lines |-> <<>>, exc |-> NoExc]
        ELSE LET rig == pool[k]
                 drill_start == DrillStart(rig, well_batch)
                 drill_end == drill_start + well_batch.drill_duration
                 pool2 == [pool EXCEPT ![k] =
                             set_resource_availability(rig, BusyUntil(drill_end))]
             IN  [pool |-> SortByStart(pool2),
                  batch |-> set_drill_status(well_batch, drill_start),
                  events |-> <<>>,
                  lines |-> <<AssignedLine(rig, well_batch, drill_start,
                                           drill_end)>>,
                  exc |-> NoExc]

\* The check of a resource may raise (a crew or an untyped resource among
\* the rigs): schedule() then aborts inside the scan.
DrillIteration(pool, well_batch, lag) ==
    LET f == FirstValid(pool, well_batch, lag)
        k == f.k
    IN  IF f.exc # NoExc
        THEN [pool |-> pool, batch |-> well_batch, events |-> <<>>,
              lines |-> <<>>, exc |-> f.exc]
        ELSE IF k = 0
        THEN [pool |-> SortByStart(pool), batch |-> well_batch,
              events |-> <<>>, lines |-> <<>>, exc |-> NoExc]
        ELSE LET rig == pool[k]
                 drill_start == DrillStart(rig, well_batch)
                 drill_end == drill_start + well_batch.drill_duration
                 pool2 == [pool EXCEPT ![k] =
                             set_resource_availability(rig, BusyUntil(drill_end))]
                 batch2 == set_drill_status(well_batch, drill_start)
                 ev == ScheduleEvent(rig, well_batch, drill_start,
                                     PyDate(drill_end),
                                     PyInt(well_batch.drill_duration))
             IN  [pool |-> IF ev.exc = NoExc THEN SortByStart(pool2) ELSE pool2,
                  batch |-> batch2,
                  events |-> ev.event,
                  lines |-> <<AssignedLine(rig, well_batch, drill_start,
                                           drill_end)>>,
                  exc |-> ev.exc]

----------------------------------------------------------------------------
(* One pass of the FRAC loop for one batch (lines 217-245).                *)

\* A frac start that ignores drill_end and the lag.
FracStart_CrewOnly(frac_crew, well_batch, lag) == frac_crew.start_date

FracStart(frac_crew, well_batch, lag) ==
    Max(frac_crew.start_date, well_batch.drill_end + lag)

FracIteration(pool, well_batch, lag) ==
    LET notice == IF ~well_batch.is_drilled THEN <<CannotLine(well_batch)>>
                  ELSE <<>>
        f == FirstValid(pool, well_batch, lag)
        k == f.k
    IN  IF f.exc # NoExc
        THEN [pool |-> pool, batch |-> well_batch, events |-> <<>>,
              lines |-> notice, exc |-> f.exc]
        ELSE IF k = 0
        THEN [pool |-> SortByStart(pool), batch |-> well_batch,
              events |-> <<>>, lines |-> notice, exc |-> NoExc]
        ELSE IF ~IsSet(lag)
        THEN [pool |-> pool, batch |-> well_batch, events |-> <<>>,
              lines |-> notice, exc |-> ExcTimedelta]
        ELSE IF ~IsSet(well_batch.drill_end)
        THEN [pool |-> pool, batch |-> well_batch, events |-> <<>>,
              lines |-> notice, exc |-> ExcNoneDrillEnd]
        ELSE LET frac_crew == pool[k]
                 frac_start == FracStart(frac_crew, well_batch, lag)
                 frac_end == frac_start + well_batch.frac_duration
                 pool2 == [pool EXCEPT ![k] =
                             set_resource_availability(frac_crew,
                                                       BusyUntil(frac_end))]
                 line == AssignedLine(frac_crew, well_batch, frac_start,
                                      frac_end)
                 st == set_frac_status(well_batch, frac_start)
                 ev == ScheduleEvent(frac_crew, well_batch, frac_start,
                                     PyDate(frac_end),
                                     PyInt(well_batch.frac_duration))
             IN  IF st.exc # NoExc
                 THEN [pool |-> pool2, batch |-> st.batch, events |-> <<>>,
                       lines |-> notice \o <<line>>, exc |-> st.exc]
                 ELSE [pool |-> IF ev.exc = NoExc THEN SortByStart(pool2)
                                ELSE pool2,
                       batch |-> st.batch,
                       events |-> ev.event,
                       lines |-> notice \o <<line>>,
                       exc |-> ev.exc]

----------------------------------------------------------------------------
(* Scheduler.schedule(), one action per loop pass.                         *)

\* Lines 182-184: the three sorts, then the DRILL loop begins.
ScheduleSort ==
    /\ pc = "ready"
    /\ well_batches' = SortBatches(well_batches)
    /\ rigs' = SortByStart(rigs)
    /\ frac_crews' = SortByStart(frac_crews)
    /\ pc' = IF Len(well_batches) = 0 THEN "done" ELSE "drill"
    /\ i' = 1
    /\ exc' = NoExc
    /\ UNCHANGED <<frac_lag, schedule_events, printed, returned, simops_pairs>>

\* get_schedule_events() returns the list object self.schedule_events, not
\* a copy, and raises while that list is empty: once `returned' is not
\* empty it is the log itself and shows every later append.
ReturnedList(ret, events) == IF Len(ret) > 0 THEN events ELSE ret

\* Lines 189-214 for well_batches[i].
DrillStep ==
    /\ pc = "drill" /\ exc = NoExc
    /\ LET r == DrillIteration(rigs, well_batches[i], frac_lag)
       IN  /\ rigs' = r.pool
           /\ well_batches' = [well_batches EXCEPT ![i] = r.batch]
           /\ schedule_events' = schedule_events \o r.events
           /\ returned' = ReturnedList(returned, schedule_events \o r.events)
           /\ printed' = printed \o r.lines
           /\ exc' = r.exc
           /\ IF r.exc # NoExc THEN pc' = pc /\ i' = i
              ELSE IF i < Len(well_batches) THEN pc' = pc /\ i' = i + 1
              ELSE pc' = "frac" /\ i' = 1
    /\ UNCHANGED <<frac_crews, frac_lag, simops_pairs>>

\* Lines 216-245 for well_batches[i].
FracStep ==
    /\ pc = "frac" /\ exc = NoExc
    /\ LET r == FracIteration(frac_crews, well_batches[i], frac_lag)
       IN  /\ frac_crews' = r.pool
           /\ well_batches' = [well_batches EXCEPT ![i] = r.batch]
           /\ schedule_events' = schedule_events \o r.events
           /\ returned' = ReturnedList(returned, schedule_events \o r.events)
           /\ printed' = printed \o r.lines
           /\ exc' = r.exc
           /\ IF r.exc # NoExc THEN pc' = pc /\ i' = i
              ELSE IF i < Len(well_batches) THEN pc' = pc /\ i' = i + 1
              ELSE pc' = "done" /\ i' = i
    /\ UNCHANGED <<rigs, frac_lag, simops_pairs>>

Next == ScheduleSort \/ DrillStep \/ FracStep

----------------------------------------------------------------------------
(* The state after Scheduler(rigs, frac_crews, well_batches) and           *)
(* set_frac_lag(), for the inputs of a specification.                      *)

SeqsUpTo(S, n) == UNION {[1..m -> S] : m \in 0..n}

BatchParams(drills, fracs, allows, dues, priorities) ==
    [drill_duration : drills, frac_duration : fracs,
     date_allow_to_drill : allows, due_date : dues, priority : priorities]

ResourceParams(starts, ends) == [start_date : starts, end_date : ends]

MakeBatches(ps) ==
    [k \in 1..Len(ps) |->
        WellBatch(k, ps[k].drill_duration, ps[k].frac_duration,
                  ps[k].date_allow_to_drill, ps[k].due_date, ps[k].priority)]

MakeRigs(ps) ==
    [k \in 1..Len(ps) |-> Rig(k, ps[k].start_date, ps[k].end_date)]

MakeCrews(ps) ==
    [k \in 1..Len(ps) |-> FracCrew(k, ps[k].start_date, ps[k].end_date)]

\* Scheduler(rigs, frac_crews, well_batches) on the given objects, then
\* set_frac_lag(lag) unless lag is None.
Scheduler(rigs_, frac_crews_, well_batches_, lag) ==
    /\ well_batches = well_batches_
    /\ rigs = rigs_
    /\ frac_crews = frac_crews_
    /\ frac_lag = lag
    /\ schedule_events = <<>>
    /\ printed = <<>>
    /\ pc = "ready"
    /\ i = 1
    /\ exc = NoExc
    /\ returned = <<>>
    /\ simops_pairs = <<>>

Constructed(bs, rs, cs, lag) ==
    Scheduler(MakeRigs(rs), MakeCrews(cs), MakeBatches(bs), lag)

\* A resource available from day 0 with no end date.
Open == [start_date |-> 0, end_date |-> None]

\* At most two batches and one rig, every drill input varied.
OneRig ==
    \E bs \in SeqsUpTo(BatchParams(Durations, {1}, OptDays, OptDays, {None}), 2),
       rs \in [1..1 -> ResourceParams(Days, OptDays)] :
        Constructed(bs, rs, <<Open>>, 1)

\* At most two batches and two rigs.
TwoRigs ==
    \E bs \in SeqsUpTo(BatchParams(Durations, {1}, OptDays, {None}, {None}), 2),
       rs \in [1..2 -> ResourceParams(Days, OptDays)] :
        Constructed(bs, rs, <<Open>>, 1)

\* At most two batches and at most one crew, every frac input varied.
OneCrew ==
    \E bs \in SeqsUpTo(BatchParams({1}, Durations, {None}, OptDays, {None}), 2),
       cs \in SeqsUpTo(ResourceParams(Days, OptDays), 1),
       lag \in Lags :
        Constructed(bs, <<Open>>, cs, lag)

\* At most two batches and two crews.
TwoCrews ==
    \E bs \in SeqsUpTo(BatchParams({1}, Durations, {None}, {None}, {None}), 2),
       cs \in [1..2 -> ResourceParams(Days, OptDays)],
       lag \in 1..MaxLag :
        Constructed(bs, <<Open>>, cs, lag)

\* At most three batches, the keys of the batch order varied.
Ordering ==
    \E bs \in SeqsUpTo(BatchParams({1}, {1}, OptDays, {None}, Priorities), 3) :
        Constructed(bs, <<Open>>, <<Open>>, 1)

\* The classes a caller can put in a pool of rigs, and in a pool of crews:
\* the pool's own class or the base class Resource.
RigKinds == {"Rig", "Resource"}
CrewKinds == {"FracCrew", "Resource"}

\* One batch, two rigs and one crew, any of them possibly an instance of
\* the base class.
BaseResource ==
    \E bs \in [1..1 -> BatchParams({1}, {1}, {None}, OptDays, {None})],
       rk \in [1..2 -> RigKinds],
       rs \in [1..2 -> ResourceParams(Days, {None})],
       ck \in CrewKinds :
        Scheduler([k \in 1..2 |->
                     Resource(rk[k], k, rs[k].start_date, rs[k].end_date)],
                  <<Resource(ck, 3, 0, None)>>, MakeBatches(bs), 1)

Init == OneRig \/ TwoRigs \/ OneCrew \/ TwoCrews \/ Ordering \/ BaseResource

\* One schedule() call on freshly constructed inputs.
Spec == Init /\ [][Next]_vars

----------------------------------------------------------------------------
(* The caller's own calls, between schedule() runs: set_drill_status and   *)
(* set_frac_status on a batch, set_frac_lag on the scheduler,              *)
(* set_resource_availability on a rig or a crew, and schedule() again.     *)

Idle == pc \in {"ready", "done"} \/ exc # NoExc

\* The dates a caller passes to set_drill_status and set_frac_status.
CallDays == Days

SetDrillStatus(k, d) ==
    /\ Idle
    /\ well_batches' = [well_batches EXCEPT ![k] = set_drill_status(@, d)]
    /\ exc' = NoExc
    /\ pc' = IF pc = "ready" THEN "ready" ELSE "done"
    /\ UNCHANGED <<rigs, frac_crews, frac_lag, schedule_events, printed, i,
                   returned, simops_pairs>>

SetFracStatus(k, d) ==
    /\ Idle
    /\ LET r == set_frac_status(well_batches[k], d)
       IN  /\ well_batches' = [well_batches EXCEPT ![k] = r.batch]
           /\ exc' = r.exc
    /\ pc' = IF pc = "ready" THEN "ready" ELSE "done"
    /\ UNCHANGED <<rigs, frac_crews, frac_lag, schedule_events, printed, i,
                   returned, simops_pairs>>

\* Scheduler.set_frac_lag(frac_lag_days), lines 175-176.
SetFracLag(frac_lag_days) ==
    /\ Idle
    /\ frac_lag' = frac_lag_days
    /\ exc' = NoExc
    /\ pc' = IF pc = "ready" THEN "ready" ELSE "done"
    /\ UNCHANGED <<well_batches, rigs, frac_crews, schedule_events, printed, i,
                   returned, simops_pairs>>

\* rigs[k].set_resource_availability(d) called by the caller; the list is
\* sorted again only by the next schedule().
SetRigAvailability(k, d) ==
    /\ Idle
    /\ rigs' = [rigs EXCEPT ![k] = set_resource_availability(@, d)]
    /\ exc' = NoExc
    /\ pc' = IF pc = "ready" THEN "ready" ELSE "done"
    /\ UNCHANGED <<well_batches, frac_crews, frac_lag, schedule_events, printed,
                   i, returned, simops_pairs>>

\* frac_crews[k].set_resource_availability(d) called by the caller.
SetCrewAvailability(k, d) ==
    /\ Idle
    /\ frac_crews' = [frac_crews EXCEPT ![k] = set_resource_availability(@, d)]
    /\ exc' = NoExc
    /\ pc' = IF pc = "ready" THEN "ready" ELSE "done"
    /\ UNCHANGED <<well_batches, rigs, frac_lag, schedule_events, printed, i,
                   returned, simops_pairs>>

\* schedule() called on the objects as an earlier run or call left them.
ScheduleAgain ==
    /\ Idle /\ pc # "ready"
    /\ Len(printed) < MaxPrinted
    /\ well_batches' = SortBatches(well_batches)
    /\ rigs' = SortByStart(rigs)
    /\ frac_crews' = SortByStart(frac_crews)
    /\ pc' = IF Len(well_batches) = 0 THEN "done" ELSE "drill"
    /\ i' = 1
    /\ exc' = NoExc
    /\ UNCHANGED <<frac_lag, schedule_events, printed, returned, simops_pairs>>

CallSetDrillStatus ==
    \E k \in 1..Len(well_batches), d \in CallDays : SetDrillStatus(k, d)

CallSetFracStatus ==
    \E k \in 1..Len(well_batches), d \in CallDays : SetFracStatus(k, d)

\* The lags a caller passes to set_frac_lag between runs.
CallLags == {0, 1}

CallSetFracLag == \E frac_lag_days \in CallLags : SetFracLag(frac_lag_days)

CallSetRigAvailability ==
    \E k \in 1..Len(rigs), d \in CallDays : SetRigAvailability(k, d)

CallSetCrewAvailability ==
    \E k \in 1..Len(frac_crews), d \in CallDays : SetCrewAvailability(k, d)

NextCalls ==
    \/ ScheduleSort
    \/ DrillStep
    \/ FracStep
    \/ CallSetDrillStatus
    \/ CallSetFracStatus
    \/ CallSetFracLag
    \/ ScheduleAgain

\* At most two batches of positive durations, one rig, one crew.
InitCalls ==
    \E bs \in SeqsUpTo(BatchParams(1..MaxDur, 1..MaxDur, {None}, {None}, {None}), 2),
       lag \in {None, 1} :
        Constructed(bs, <<Open>>, <<Open>>, lag)

SpecCalls == InitCalls /\ [][NextCalls]_vars

\* schedule() runs with the caller's setters between them: set_frac_lag and
\* set_resource_availability on a rig or a crew.
NextSetters ==
    \/ ScheduleSort
    \/ DrillStep
    \/ FracStep
    \/ CallSetFracLag
    \/ CallSetRigAvailability
    \/ CallSetCrewAvailability
    \/ ScheduleAgain

\* At most one batch of one day of drilling and of frac, one rig, one crew,
\* the lag set or not.
InitSetters ==
    \E bs \in SeqsUpTo(BatchParams({1}, {1}, {None}, {None}, {None}), 1),
       lag \in {None, 1} :
        Constructed(bs, <<Open>>, <<Open>>, lag)

SpecSetters == InitSetters /\ [][NextSetters]_vars

----------------------------------------------------------------------------
(* Scheduler.get_schedule_events(), called between schedule() runs.        *)

ExcNoSchedule == "Exception: No schedule events exist. Did you run .schedule() to generate schedule events first?"

\* get_schedule_events without its test of the log.
get_schedule_events_NoCheck(events) == [value |-> events, exc |-> NoExc]

\* Scheduler.get_schedule_events: the value returned and what is raised.
get_schedule_events(events) ==
    IF Len(events) = 0
    THEN [value |-> <<>>, exc |-> ExcNoSchedule]
    ELSE [value |-> events, exc |-> NoExc]

\* x = scheduler.get_schedule_events(): a call that raises leaves the
\* caller's x as it was.
GetScheduleEvents ==
    /\ Idle
    /\ LET r == get_schedule_events(schedule_events)
       IN  /\ exc' = r.exc
           /\ returned' = IF r.exc = NoExc THEN r.value ELSE returned
    /\ pc' = IF pc = "ready" THEN "ready" ELSE "done"
    /\ UNCHANGED <<well_batches, rigs, frac_crews, frac_lag, schedule_events,
                   printed, i, simops_pairs>>

NextGet ==
    \/ ScheduleSort
    \/ DrillStep
    \/ FracStep
    \/ ScheduleAgain
    \/ CallSetFracLag
    \/ GetScheduleEvents

\* At most two batches with or without a due date, one rig, at most one
\* crew, the lag set or not.
InitGet ==
    \E bs \in SeqsUpTo(BatchParams(1..MaxDur, {1}, {None}, OptDays, {None}), 2),
       cs \in SeqsUpTo({Open}, 1),
       lag \in {None, 1} :
        Constructed(bs, <<Open>>, cs, lag)

SpecGet == InitGet /\ [][NextGet]_vars

----------------------------------------------------------------------------
(* Runs shaped after the repository's schedule test                       *)
(* (test_scheduler_schedule), with the frac lag set to 10 days and the     *)
(* resources left without an end date: one or two rigs and crews, all      *)
(* available from the same day, at most two batches without dates or       *)
(* priorities, of 45 or 90 days of drilling and 15 or 30 days of frac.     *)

InitScenario ==
    \E d \in Days,
       bs \in SeqsUpTo(BatchParams({45, 90}, {15, 30}, {None}, {None}, {None}), 2),
       nr \in 1..2,
       nc \in 1..2 :
        Constructed(bs,
                    [k \in 1..nr |-> [start_date |-> d, end_date |-> None]],
                    [k \in 1..nc |-> [start_date |-> d, end_date |-> None]],
                    10)

\* One schedule() run, and get_schedule_events() before or after it.
NextScenario ==
    \/ ScheduleSort
    \/ DrillStep
    \/ FracStep
    \/ GetScheduleEvents

SpecScenario == InitScenario /\ [][NextScenario]_vars

----------------------------------------------------------------------------
(* Wells, and WellBatch.__init__(name, wells, priority) on a list of wells. *)
(* A well's lat and lon are its position `loc' on a line, in steps of      *)
(* DistStep distance units.                                                *)

MaxWells == 2      \* a batch is built from 1..MaxWells wells
MaxLoc == 2        \* wells lie at positions 0..MaxLoc

Locs == 0..MaxLoc

Well(well_name, drill_duration, frac_duration, allow, due_date, loc, priority) ==
    [well_name |-> well_name,
     drill_duration |-> drill_duration,
     frac_duration |-> frac_duration,
     date_allow_to_drill |-> allow,
     due_date |-> due_date,
     loc |-> loc,
     priority |-> priority]

Min(a, b) == IF a <= b THEN a ELSE b

\* sum((well.drill_duration for well in wells)), and the same for frac.
RECURSIVE SumDrill(_)
SumDrill(wells) ==
    IF Len(wells) = 0 THEN 0
    ELSE wells[1].drill_duration + SumDrill(Tail(wells))

RECURSIVE SumFrac(_)
SumFrac(wells) ==
    IF Len(wells) = 0 THEN 0
    ELSE wells[1].frac_duration + SumFrac(Tail(wells))

\* Lines 69-77: the loop that leaves the earliest allow-to-drill date in
\* self.date_allow_to_drill (acc), from well k on.
RECURSIVE AllowLoop(_, _, _)
AllowLoop(wells, k, acc) ==
    IF k > Len(wells) THEN acc
    ELSE IF ~IsSet(wells[k].date_allow_to_drill) THEN AllowLoop(wells, k + 1, acc)
    ELSE IF ~IsSet(acc)
    THEN AllowLoop(wells, k + 1, wells[k].date_allow_to_drill)
    ELSE AllowLoop(wells, k + 1, Min(acc, wells[k].date_allow_to_drill))

\* Lines 78-84: the same for the latest due date.
RECURSIVE DueLoop(_, _, _)
DueLoop(wells, k, acc) ==
    IF k > Len(wells) THEN acc
    ELSE IF ~IsSet(wells[k].due_date) THEN DueLoop(wells, k + 1, acc)
    ELSE IF ~IsSet(acc) THEN DueLoop(wells, k + 1, wells[k].due_date)
    ELSE DueLoop(wells, k + 1, Max(acc, wells[k].due_date))

\* Lines 86-92: the loop over the wells' priorities, entered when
\* `not priority'; acc is self.priority.
RECURSIVE PriorityLoop(_, _, _)
PriorityLoop(wells, k, acc) ==
    IF k > Len(wells) THEN acc
    ELSE IF ~Truthy(wells[k].priority) THEN PriorityLoop(wells, k + 1, acc)
    ELSE IF ~Truthy(acc) THEN PriorityLoop(wells, k + 1, wells[k].priority)
    ELSE PriorityLoop(wells, k + 1, Min(acc, wells[k].priority))

\* WellBatch.__init__(name, wells, priority): the batch keeps its wells.
WellBatchOfWells(name, wells, priority) ==
    [name |-> name,
     wells |-> wells,
     drill_duration |-> SumDrill(wells),
     frac_duration |-> SumFrac(wells),
     date_allow_to_drill |-> AllowLoop(wells, 1, None),
     due_date |-> DueLoop(wells, 1, None),
     priority |-> IF ~Truthy(priority) THEN PriorityLoop(wells, 1, priority)
                  ELSE priority,
     is_drilled |-> FALSE, drill_start |-> None, drill_end |-> None,
     is_fraced |-> FALSE, frac_start |-> None, frac_end |-> None]

\* The wells a caller passes: 1..MaxWells wells with fields from the sets.
WellParams(drills, fracs, allows, dues, locs, priorities) ==
    [drill_duration : drills, frac_duration : fracs,
     date_allow_to_drill : allows, due_date : dues, loc : locs,
     priority : priorities]

WellLists(S) == UNION {[1..m -> S] : m \in 1..MaxWells}

\* The wells of the batch named `name', from their parameters.
MakeWells(name, ps) ==
    [k \in 1..Len(ps) |->
        Well(<<name, k>>, ps[k].drill_duration, ps[k].frac_duration,
             ps[k].date_allow_to_drill, ps[k].due_date, ps[k].loc,
             ps[k].priority)]

\* well_batches.append(WellBatch(name, wells, priority)) by the caller, on
\* the list the Scheduler holds, before schedule() runs.
AddWellBatch(ps, priority) ==
    /\ pc = "ready" /\ exc = NoExc
    /\ Len(well_batches) = 0
    /\ well_batches' =
          Append(well_batches,
                 WellBatchOfWells(Len(well_batches) + 1,
                                  MakeWells(Len(well_batches) + 1, ps),
                                  priority))
    /\ UNCHANGED <<rigs, frac_crews, frac_lag, schedule_events, printed, pc, i,
                   exc, returned, simops_pairs>>

\* The inputs of the constructor: wells that differ in their durations, in
\* their dates, or in their priorities (with every override).
DurationWells ==
    WellLists(WellParams(Durations, Durations, {None}, {None}, {0}, {None}))

DateWells == WellLists(WellParams({1}, {1}, OptDays, OptDays, {0}, {None}))

PriorityWells == WellLists(WellParams({1}, {1}, {None}, {None}, {0}, Priorities))

ConstructInputs ==
    ((DurationWells \cup DateWells) \X {None}) \cup (PriorityWells \X Priorities)

ConstructBatch == \E in \in ConstructInputs : AddWellBatch(in[1], in[2])

NextConstruct ==
    \/ ConstructBatch
    \/ ScheduleSort
    \/ DrillStep
    \/ FracStep

\* A Scheduler on a list of batches that is still empty.
InitConstruct == Constructed(<<>>, <<Open>>, <<Open>>, 1)

SpecConstruct == InitConstruct /\ [][NextConstruct]_vars

----------------------------------------------------------------------------
(* Scheduler._generate_simops_pairs and schedule(simops=True).             *)

threshold == 3000  \* the default of _generate_simops_pairs(threshold=3000)
DistStep == 1500   \* the distance between neighbouring positions

ExcNotIterable == "TypeError: 'WellBatch' object is not iterable"

\* _haversine_dist of two wells that lie on the line.
haversine_dist(well, other_well) ==
    IF well.loc >= other_well.loc
    THEN DistStep * (well.loc - other_well.loc)
    ELSE DistStep * (other_well.loc - well.loc)

\* iter(well_batch), as `for well in self.well_batches[i]' asks for it:
\* WellBatch defines neither __iter__ nor __getitem__, so it raises.
IterWellBatch(well_batch) == [items |-> <<>>, exc |-> ExcNotIterable]

\* Lines 282-289: the scan of the other batch's wells for one well; the
\* index of the first one within the threshold, 0 if there is none.
RECURSIVE OtherWellScan(_, _, _)
OtherWellScan(well, others, n) ==
    IF n > Len(others) THEN 0
    ELSE IF haversine_dist(well, others[n]) < threshold THEN n
    ELSE OtherWellScan(well, others, n + 1)

\* Lines 280-291 for the batches i and j, from the m-th well of batch i on:
\* the pair appended (or none) and what is raised.
RECURSIVE WellScan(_, _, _, _)
WellScan(items, well_batches_j, m, pairs) ==
    IF m > Len(items) THEN [pairs |-> pairs, exc |-> NoExc]
    ELSE LET others == IterWellBatch(well_batches_j)
             n == OtherWellScan(items[m], others.items, 1)
         IN  IF others.exc # NoExc THEN [pairs |-> pairs, exc |-> others.exc]
             ELSE IF n > 0
             THEN [pairs |-> Append(pairs, <<items[m], others.items[n]>>),
                   exc |-> NoExc]
             ELSE WellScan(items, well_batches_j, m + 1, pairs)

\* Lines 278-293 from the batches i and j on.
RECURSIVE BatchPairLoop(_, _, _, _)
BatchPairLoop(batches, bi, bj, pairs) ==
    IF bi > Len(batches) THEN [pairs |-> pairs, exc |-> NoExc]
    ELSE IF bj > Len(batches) THEN BatchPairLoop(batches, bi + 1, bi + 2, pairs)
    ELSE LET wells == IterWellBatch(batches[bi])
             r == WellScan(wells.items, batches[bj], 1, pairs)
         IN  IF wells.exc # NoExc THEN [pairs |-> pairs, exc |-> wells.exc]
             ELSE IF r.exc # NoExc THEN r
             ELSE BatchPairLoop(batches, bi, bj + 1, r.pairs)

\* Scheduler._generate_simops_pairs()
generate_simops_pairs(batches) == BatchPairLoop(batches, 1, 2, <<>>)

\* schedule(simops=True), lines 182-187: the three sorts, then the pairs.
\* When _generate_simops_pairs raises, simops_pairs is not assigned and
\* schedule() is left at line 187.
ScheduleSimops ==
    /\ pc = "ready"
    /\ LET r == generate_simops_pairs(SortBatches(well_batches))
       IN  /\ exc' = r.exc
           /\ simops_pairs' = IF r.exc = NoExc THEN r.pairs ELSE simops_pairs
           /\ pc' = IF r.exc # NoExc THEN "simops"
                    ELSE IF Len(well_batches) = 0 THEN "done" ELSE "drill"
    /\ well_batches' = SortBatches(well_batches)
    /\ rigs' = SortByStart(rigs)
    /\ frac_crews' = SortByStart(frac_crews)
    /\ i' = 1
    /\ UNCHANGED <<frac_lag, schedule_events, printed, returned>>

NextSimops ==
    \/ ScheduleSimops
    \/ DrillStep
    \/ FracStep

\* Wells that differ in their positions only.
LocWells == WellParams({1}, {1}, {None}, {None}, Locs, {None})

SimopsBatches(wss) ==
    [k \in 1..Len(wss) |-> WellBatchOfWells(k, MakeWells(k, wss[k]), None)]

\* At most two batches of 1..MaxWells wells, or three batches of one well.
InitSimops ==
    \E wss \in SeqsUpTo(WellLists(LocWells), 2)
              \cup [1..3 -> [1..1 -> LocWells]] :
        /\ well_batches = SimopsBatches(wss)
        /\ rigs = MakeRigs(<<Open>>)
        /\ frac_crews = MakeCrews(<<Open>>)
        /\ frac_lag = 1
        /\ schedule_events = <<>>
        /\ printed = <<>>
        /\ pc = "ready"
        /\ i = 1
        /\ exc = NoExc
        /\ returned = <<>>
        /\ simops_pairs = <<>>

SpecSimops == InitSimops /\ [][NextSimops]_vars

----------------------------------------------------------------------------
(* What the properties below read from a state.                            *)

\* The "assigned" lines printed so far: one per assignment made, with the
\* actual start and end of the work.
Assignments == {n \in 1..Len(printed) : printed[n].msg = "assigned"}

RigAssignments == {n \in Assignments : printed[n].resource[1] = "Rig"}

CrewAssignments == {n \in Assignments : printed[n].resource[1] = "FracCrew"}

BatchNamed(name) ==
    CHOOSE b \in {well_batches[k] : k \in 1..Len(well_batches)} : b.name = name

ResourceNamed(ref) ==
    CHOOSE r \in {rigs[k] : k \in 1..Len(rigs)}
                 \cup {frac_crews[k] : k \in 1..Len(frac_crews)} :
        ResourceRef(r) = ref

Sorted == pc # "ready"

----------------------------------------------------------------------------
\* C1: no resource is double-booked.  Any two assignments made to the same
\* rig or the same frac crew are disjoint in time, and the later one starts
\* at least one day after the earlier one ends.
C1_NoDoubleBooking ==
    \A p, q \in Assignments :
        (p < q /\ printed[p].resource = printed[q].resource)
            => /\ printed[p].start <= printed[p].end
               /\ printed[q].start >= printed[p].end + 1

\* A finished run in which one rig drilled two batches and one crew fraced
\* two batches.
C1_Witness ==
    /\ pc = "done"
    /\ \E p, q \in RigAssignments :
          p < q /\ printed[p].resource = printed[q].resource
    /\ \E p, q \in CrewAssignments :
          p < q /\ printed[p].resource = printed[q].resource

\* C2: the actual end of every assignment, drill or frac, is not later than
\* the resource's end_date when that is set, nor than the batch's due_date
\* when that is set.
C2_EndWithinWindows ==
    \A n \in Assignments :
        LET resource == ResourceNamed(printed[n].resource)
            batch == BatchNamed(printed[n].well_batch)
        IN  /\ IsSet(resource.end_date) => printed[n].end <= resource.end_date
            /\ IsSet(batch.due_date) => printed[n].end <= batch.due_date

\* C3: with a frac lag configured, drill_end = drill_start + drill_duration
\* for every drilled batch, and frac_end = frac_start + frac_duration and
\* frac_start >= drill_end + frac_lag for every fraced batch.
C3_StatusArithmetic ==
    IsSet(frac_lag) =>
        \A k \in 1..Len(well_batches) :
            LET b == well_batches[k]
            IN  /\ b.is_drilled => b.drill_end = b.drill_start + b.drill_duration
                /\ b.is_fraced =>
                      /\ b.frac_end = b.frac_start + b.frac_duration
                      /\ b.frac_start >= b.drill_end + frac_lag

\* A finished run with a batch whose frac began exactly drill_end + lag and
\* a batch whose frac had to wait longer for the crew.
C3_Witness ==
    /\ pc = "done"
    /\ \E k \in 1..Len(well_batches) :
          /\ well_batches[k].is_fraced
          /\ well_batches[k].frac_start = well_batches[k].drill_end + frac_lag
    /\ \E k \in 1..Len(well_batches) :
          /\ well_batches[k].is_fraced
          /\ well_batches[k].frac_start > well_batches[k].drill_end + frac_lag

\* C4: frac requires drill completion.  A fraced batch is drilled; a batch
\* the DRILL phase left undrilled gets no frac assignment and no frac event;
\* and the FRAC phase skips it: its pass over such a batch raises nothing.
\* (Stated for runs with a frac lag set, where no configuration error is due.)
C4_FracRequiresDrill ==
    /\ \A k \in 1..Len(well_batches) :
          well_batches[k].is_fraced => well_batches[k].is_drilled
    /\ \A n \in CrewAssignments : BatchNamed(printed[n].well_batch).is_drilled
    /\ \A n \in 1..Len(schedule_events) :
          schedule_events[n].resource[1] = "FracCrew"
              => BatchNamed(schedule_events[n].well_batch).is_drilled
    /\ (Truthy(frac_lag) /\ pc = "frac" /\ ~well_batches[i].is_drilled)
          => exc = NoExc

\* C5: with a frac lag configured, schedule() runs to completion without
\* raising, whatever the batches, rigs and crews: a batch no rig can drill
\* is left unscheduled and the run goes on.  (Stated for a positive lag and
\* positive durations, which keeps the zero-lag and zero-duration failures
\* of schedule() out of it.)
C5_NeverRaises ==
    (/\ Truthy(frac_lag)
     /\ \A k \in 1..Len(well_batches) :
           well_batches[k].drill_duration > 0 /\ well_batches[k].frac_duration > 0)
        => exc = NoExc

\* The rig named ref as the state before a step has it.
RigBefore(ref) ==
    CHOOSE r \in {rigs[k] : k \in 1..Len(rigs)} : ResourceRef(r) = ref

\* The batches a step drills: undrilled before it, drilled after it.
DrilledByStep(k) == ~well_batches[k].is_drilled /\ well_batches'[k].is_drilled

\* C6: no batch begins drilling before its allow-to-drill date or before its
\* rig is available.  When a step drills a batch, drill_start is the later
\* of the picked rig's start_date before the step and the batch's
\* allow-to-drill date, and the rig's start_date alone without that date.
C6_DrillStart ==
    [][\A k \in 1..Len(well_batches) :
          DrilledByStep(k) =>
             LET line == printed'[Len(printed')]
                 rig == RigBefore(line.resource)
                 b == well_batches'[k]
             IN  /\ Len(printed') = Len(printed) + 1
                 /\ line.msg = "assigned" /\ line.well_batch = b.name
                 /\ line.start = b.drill_start
                 /\ b.drill_start >= rig.start_date
                 /\ IsSet(b.date_allow_to_drill)
                       => /\ b.drill_start >= b.date_allow_to_drill
                          /\ b.drill_start \in {rig.start_date,
                                                b.date_allow_to_drill}
                 /\ ~IsSet(b.date_allow_to_drill)
                       => b.drill_start = rig.start_date]_vars

\* Three drilled batches: one began on its allow-to-drill date (the rig was
\* free by then), one later than its date (it waited for the rig), one has
\* no such date.
C6_Witness ==
    /\ \E k \in 1..Len(well_batches) :
          /\ well_batches[k].is_drilled
          /\ IsSet(well_batches[k].date_allow_to_drill)
          /\ well_batches[k].drill_start = well_batches[k].date_allow_to_drill
    /\ \E k \in 1..Len(well_batches) :
          /\ well_batches[k].is_drilled
          /\ IsSet(well_batches[k].date_allow_to_drill)
          /\ well_batches[k].drill_start > well_batches[k].date_allow_to_drill
    /\ \E k \in 1..Len(well_batches) :
          /\ well_batches[k].is_drilled
          /\ ~IsSet(well_batches[k].date_allow_to_drill)

\* The rigs are in ascending start_date order.
RigsAscending ==
    \A p, q \in 1..Len(rigs) : p < q => rigs[p].start_date <= rigs[q].start_date

\* The positions of the rigs that pass the feasibility check for batch b.
FeasibleRigs(b) ==
    {r \in 1..Len(rigs) : is_valid_assignment(rigs[r], b, frac_lag).value}

\* The scan of the rigs for batch b meets, before any feasible rig, a
\* resource whose check raises (one that is neither a Rig nor a FracCrew).
ScanRaises(b) ==
    \E r \in 1..Len(rigs) :
        /\ ValidRaises(rigs[r], frac_lag)
        /\ \A o \in FeasibleRigs(b) : r < o

\* C7: the DRILL phase is first-fit.  Each pass takes the next batch in
\* batch order; the rigs stand in ascending start_date order; the rig
\* assigned is the first one in that order for which is_valid_assignment
\* holds; the batch stays undrilled only if no rig is feasible; and the
\* chosen rig is busy until drill_end + 1 day when the pass ends, the other
\* rigs keeping their dates.  (A pass whose scan is aborted by the check of
\* a resource that is not a rig assigns nothing.)
C7_FirstFit ==
    [][(pc = "drill" /\ exc = NoExc /\ ~ScanRaises(well_batches[i])) =>
          LET b == well_batches[i]
              after == well_batches'[i]
              F == FeasibleRigs(b)
          IN  /\ RigsAscending
              /\ (pc' = "drill" /\ exc' = NoExc) => i' = i + 1
              /\ \A k \in 1..Len(well_batches) :
                    k # i => well_batches'[k] = well_batches[k]
              /\ F = {} => /\ after = b
                           /\ rigs' = rigs
                           /\ printed' = printed
              /\ F # {} =>
                    LET first == CHOOSE r \in F : \A o \in F : r <= o
                        line == printed'[Len(printed')]
                    IN  /\ after.is_drilled
                        /\ Len(printed') = Len(printed) + 1
                        /\ line.well_batch = b.name
                        /\ line.resource = ResourceRef(rigs[first])
                        /\ \A r \in 1..Len(rigs') :
                              IF ResourceRef(rigs'[r]) = line.resource
                              THEN rigs'[r].start_date = after.drill_end + 1
                              ELSE rigs'[r] = RigBefore(ResourceRef(rigs'[r]))]_vars

\* A batch without an allow-to-drill date was drilled by a rig although
\* another rig, never used, was available earlier: the scan passed over the
\* earlier rig as infeasible.
C7_Witness ==
    \E n \in RigAssignments, r \in 1..Len(rigs) :
        /\ ~IsSet(BatchNamed(printed[n].well_batch).date_allow_to_drill)
        /\ rigs[r].start_date < printed[n].start
        /\ \A m \in RigAssignments : printed[m].resource # ResourceRef(rigs[r])

\* The batches schedule() processes, in the order it processes them: the
\* list as its sort leaves it.
HasPriority(b) == IsSet(b.priority)

\* C8: in the processing order every batch with a priority (0 included)
\* comes before every batch without one; batches with priorities are in
\* ascending priority; among batches without priority an earlier
\* allow-to-drill date comes first and a batch without that date last.
C8_ProcessingOrder ==
    Sorted =>
        \A p, q \in 1..Len(well_batches) :
            p < q =>
               LET a == well_batches[p]
                   b == well_batches[q]
               IN  /\ ~(~HasPriority(a) /\ HasPriority(b))
                   /\ (HasPriority(a) /\ HasPriority(b))
                         => a.priority <= b.priority
                   /\ (~HasPriority(a) /\ ~HasPriority(b))
                         => /\ ~(~IsSet(a.date_allow_to_drill)
                                 /\ IsSet(b.date_allow_to_drill))
                            /\ (IsSet(a.date_allow_to_drill)
                                /\ IsSet(b.date_allow_to_drill))
                                  => a.date_allow_to_drill
                                        <= b.date_allow_to_drill

\* Two batches tie on every key of the order.
Tie(a, b) ==
    \/ HasPriority(a) /\ HasPriority(b) /\ a.priority = b.priority
    \/ /\ ~HasPriority(a) /\ ~HasPriority(b)
       /\ a.date_allow_to_drill = b.date_allow_to_drill

\* C9: the batch comparator is a strict order (never a < a, never both
\* a < b and b < a), and batches that tie on every key are processed in
\* their original input order.
C9_StrictAndStable ==
    Sorted =>
        \A p, q \in 1..Len(well_batches) :
            LET a == well_batches[p]
                b == well_batches[q]
            IN  /\ ~BatchLt(a, a)
                /\ ~(BatchLt(a, b) /\ BatchLt(b, a))
                /\ (p < q /\ Tie(a, b)) => a.name < b.name

\* C10: set_frac_status(start) fails when the batch is not yet drilled,
\* fails when start < drill_end, and then leaves is_fraced, frac_start and
\* frac_end as they were; in every other case it sets is_fraced,
\* frac_start = start and frac_end = start + frac_duration.
C10_SetFracStatus ==
    [][\A k \in 1..Len(well_batches), d \in CallDays :
          SetFracStatus(k, d) =>
             LET b == well_batches[k]
                 after == well_batches'[k]
             IN  IF ~b.is_drilled \/ d < b.drill_end
                 THEN /\ exc' = IF ~b.is_drilled THEN ExcFracBeforeDrill
                                ELSE ExcFracBeforeDrillEnd
                      /\ after.is_fraced = b.is_fraced
                      /\ after.frac_start = b.frac_start
                      /\ after.frac_end = b.frac_end
                 ELSE /\ exc' = NoExc
                      /\ after.is_fraced
                      /\ after.frac_start = d
                      /\ after.frac_end = d + b.frac_duration]_vars

\* Before any schedule() run: one batch was fraced by a call that passed,
\* an undrilled batch is still unfraced, and the last call, on a drilled
\* batch with a start before its drill_end, failed and left it unfraced.
C10_Witness ==
    /\ pc = "ready"
    /\ exc = ExcFracBeforeDrillEnd
    /\ \E k \in 1..Len(well_batches) :
          /\ well_batches[k].is_fraced
          /\ well_batches[k].frac_end
                = well_batches[k].frac_start + well_batches[k].frac_duration
    /\ \E k \in 1..Len(well_batches) :
          well_batches[k].is_drilled /\ ~well_batches[k].is_fraced

\* A pass of the FRAC loop has run to its end: a crew, if there is one, has
\* been checked for a batch without anything being raised.
FracPassDone ==
    \/ pc = "frac" /\ i > 1
    \/ pc = "done" /\ Len(well_batches) > 0

\* C11: the frac-lag configuration error is raised exactly when a frac crew
\* is checked while no frac lag has been set.  It is raised only in the FRAC
\* phase (never at construction, never by a rig check) and only with the lag
\* unset: a configured lag, 0 days included, lets frac scheduling proceed.
\* And a FRAC pass that checked a crew without the error had a lag set.
C11_FracLagError ==
    /\ exc = ExcFracLag =>
          /\ pc = "frac" /\ Len(frac_crews) > 0
          /\ ~IsSet(frac_lag)
    /\ (FracPassDone /\ Len(frac_crews) > 0) => IsSet(frac_lag)

\* C12: get_schedule_events() fails exactly when the event log is empty
\* (before any schedule() call, and after a run that placed no batch);
\* otherwise it returns the whole accumulated log, in append order.  In
\* neither case does it change the log, the batches or the resources.
C12_GetScheduleEvents ==
    [][GetScheduleEvents =>
          /\ (Len(schedule_events) = 0) <=> (exc' = ExcNoSchedule)
          /\ Len(schedule_events) = 0 => returned' = returned
          /\ Len(schedule_events) > 0 =>
                /\ exc' = NoExc
                /\ returned' = schedule_events
          /\ schedule_events' = schedule_events
          /\ well_batches' = well_batches
          /\ rigs' = rigs
          /\ frac_crews' = frac_crews]_vars

\* After a schedule() run that could place none of its batches, the call
\* failed: the log is empty although schedule() has run.
C12_Witness ==
    /\ pc = "done"
    /\ Len(well_batches) > 0
    /\ Len(printed) > 0
    /\ Len(schedule_events) = 0
    /\ exc = ExcNoSchedule

\* Two rigs, two crews, a lag of 10 days, two batches of 45 days of
\* drilling and 15 days of frac.
ScenarioInputs ==
    /\ Len(rigs) = 2 /\ Len(frac_crews) = 2 /\ frac_lag = 10
    /\ Len(well_batches) = 2
    /\ \A k \in 1..Len(well_batches) :
          /\ well_batches[k].drill_duration = 45
          /\ well_batches[k].frac_duration = 15

\* C14: with 2 rigs and 2 crews all available from the same day D with no
\* end date, a frac lag of 10 days and two batches of drill duration 45 and
\* frac duration 15 without dates or priorities, schedule() drills both
\* batches starting on D, one per rig, starts each batch's frac at its
\* drill_end + 10 days, and get_schedule_events() returns exactly 4 events.
\* (When the DRILL phase ends the crews still hold day D as start_date.)
C14_Scenario ==
    ScenarioInputs =>
        /\ \A d \in Days :
              (/\ pc = "frac" /\ i = 1 /\ exc = NoExc
               /\ \A c \in 1..Len(frac_crews) : frac_crews[c].start_date = d)
                 => /\ \A k \in 1..Len(well_batches) :
                          /\ well_batches[k].is_drilled
                          /\ well_batches[k].drill_start = d
                          /\ well_batches[k].drill_end = d + 45
                    /\ Cardinality(RigAssignments) = 2
                    /\ \A p, q \in RigAssignments :
                          p # q => printed[p].resource # printed[q].resource
        /\ pc \in {"drill", "frac"} => exc = NoExc
        /\ pc = "done" =>
              /\ \A k \in 1..Len(well_batches) :
                    /\ well_batches[k].is_fraced
                    /\ well_batches[k].frac_start
                          = well_batches[k].drill_end + 10
              /\ Len(schedule_events) = 4
              /\ exc = NoExc
        /\ Len(returned) > 0 => pc = "done" /\ Len(returned) = 4

\* The scenario has run and get_schedule_events() has returned its log.
C14_Witness ==
    /\ ScenarioInputs
    /\ pc = "done"
    /\ \A k \in 1..Len(well_batches) : well_batches[k].is_fraced
    /\ returned = schedule_events
    /\ Len(returned) = 4

\* The sum of f over the index set S.
RECURSIVE Total(_, _)
Total(f, S) ==
    IF S = {} THEN 0
    ELSE LET k == CHOOSE k \in S : TRUE IN f[k] + Total(f, S \ {k})

\* The least and the greatest element of a non-empty set of numbers.
Least(S) == CHOOSE x \in S : \A y \in S : x <= y
Greatest(S) == CHOOSE x \in S : \A y \in S : x >= y

\* C16: a WellBatch built from a non-empty sequence of wells has
\* drill_duration and frac_duration equal to the sums over its wells,
\* allow-to-drill date the minimum over the wells that have one (unset if
\* none), due_date the maximum over the wells that have one (unset if none),
\* and priority the explicit override whenever one is given (any integer, 0
\* included), else the minimum priority among the wells that have one
\* (unset if none).
C16_Aggregates ==
    [][\A in \in ConstructInputs :
          AddWellBatch(in[1], in[2]) =>
             LET ps == in[1]
                 K == 1..Len(ps)
                 b == well_batches'[Len(well_batches')]
                 allows == {ps[k].date_allow_to_drill : k \in K} \ {None}
                 dues == {ps[k].due_date : k \in K} \ {None}
                 prios == {ps[k].priority : k \in K} \ {None}
             IN  /\ b.drill_duration
                       = Total([k \in K |-> ps[k].drill_duration], K)
                 /\ b.frac_duration
                       = Total([k \in K |-> ps[k].frac_duration], K)
                 /\ b.date_allow_to_drill
                       = IF allows = {} THEN None ELSE Least(allows)
                 /\ b.due_date = IF dues = {} THEN None ELSE Greatest(dues)
                 /\ b.priority
                       = IF IsSet(in[2]) THEN in[2]
                         ELSE IF prios = {} THEN None ELSE Least(prios)]_vars

\* The wells of two batches lie within the threshold distance: some well of
\* the one is nearer than `threshold' to some well of the other.
BatchesNear(a, b) ==
    \E m \in 1..Len(a.wells), n \in 1..Len(b.wells) :
        haversine_dist(a.wells[m], b.wells[n]) < threshold

\* The entries of simops_pairs that pair a well of a with a well of b.
PairsOf(a, b) ==
    {n \in 1..Len(simops_pairs) :
        \E m \in 1..Len(a.wells), o \in 1..Len(b.wells) :
            \/ simops_pairs[n] = <<a.wells[m], b.wells[o]>>
            \/ simops_pairs[n] = <<b.wells[o], a.wells[m]>>}

\* C15: with simops enabled, schedule() produces a conflict list in which
\* every unordered pair of distinct batches with a well of the one within
\* the threshold distance of a well of the other contributes exactly one
\* (well_a, well_b) pair, and every pair of batches whose wells are all at or
\* beyond the threshold contributes none.
C15_SimopsPairs ==
    pc # "ready" =>
        /\ exc # ExcNotIterable
        /\ \A p, q \in 1..Len(well_batches) :
              p < q =>
                 LET a == well_batches[p]
                     b == well_batches[q]
                 IN  IF BatchesNear(a, b)
                     THEN Cardinality(PairsOf(a, b)) = 1
                     ELSE PairsOf(a, b) = {}

\* The status fields of a batch agree: drill_end is set iff is_drilled, and
\* frac_end is set iff is_fraced.
StatusSet(b) ==
    /\ IsSet(b.drill_end) <=> b.is_drilled
    /\ IsSet(b.frac_end) <=> b.is_fraced

\* A fraced batch's frac does not start before its drill ends.
FracAfterDrill(b) == b.is_fraced => b.frac_start >= b.drill_end

\* C17, as claimed: in every state reachable by any sequence of
\* set_drill_status, set_frac_status and schedule() calls (a second
\* schedule() run and a repeated set_drill_status on a fraced batch
\* included), drill_end is set iff is_drilled, frac_end is set iff
\* is_fraced, and frac_start >= drill_end whenever the batch is fraced.
C17_StatusInvariant ==
    \A k \in 1..Len(well_batches) :
        StatusSet(well_batches[k]) /\ FracAfterDrill(well_batches[k])

\* The batch named `name' as a step leaves it.
BatchAfter(name) ==
    CHOOSE b \in {well_batches'[k] : k \in 1..Len(well_batches')} : b.name = name

\* C17, amended: under any sequence of set_drill_status, set_frac_status and
\* schedule() calls, drill_end is set iff is_drilled and frac_end is set iff
\* is_fraced; frac_start >= drill_end holds whenever a step sets a batch's
\* frac status, and from then on through every step that leaves the
\* batch's drill_end as it is (only setting the drill status again, by
\* set_drill_status or by a further schedule() run, can break it).
C17_StatusAmended ==
    [][\A k \in 1..Len(well_batches) :
          LET b == well_batches[k]
              after == BatchAfter(b.name)
          IN  /\ StatusSet(b) /\ StatusSet(after)
              /\ (after.is_fraced
                  /\ (~b.is_fraced \/ after.frac_start # b.frac_start))
                    => FracAfterDrill(after)
              /\ (FracAfterDrill(b) /\ after.drill_end = b.drill_end)
                    => FracAfterDrill(after)]_vars

\* A second schedule() run has ended: a batch has two drill events and two
\* frac events in the log, and its frac starts after its drill ends.
C17_Witness ==
    /\ pc = "done" /\ exc = NoExc
    /\ \E k \in 1..Len(well_batches) :
          /\ well_batches[k].is_fraced
          /\ well_batches[k].frac_start >= well_batches[k].drill_end
          /\ Cardinality({n \in 1..Len(schedule_events) :
                            schedule_events[n].well_batch
                               = well_batches[k].name}) = 4

\* The place of a batch in the processing order: its index in the sorted
\* list.
Position(name) ==
    CHOOSE k \in 1..Len(well_batches) : well_batches[k].name = name

DrillEvents ==
    {n \in 1..Len(schedule_events) : schedule_events[n].resource[1] = "Rig"}

FracEvents ==
    {n \in 1..Len(schedule_events) :
        schedule_events[n].resource[1] = "FracCrew"}

\* C18: in the event log of one schedule() run on fresh inputs every drill
\* event comes before every frac event; the events of each phase are in the
\* batch processing order, so a batch has at most one drill event and at
\* most one frac event; and a batch's frac event comes after its own drill
\* event.
C18_EventOrder ==
    Sorted =>
        /\ \A n \in DrillEvents, m \in FracEvents : n < m
        /\ \A n, m \in DrillEvents :
              n < m => Position(schedule_events[n].well_batch)
                          < Position(schedule_events[m].well_batch)
        /\ \A n, m \in FracEvents :
              n < m => Position(schedule_events[n].well_batch)
                          < Position(schedule_events[m].well_batch)
        /\ \A m \in FracEvents :
              \E n \in DrillEvents :
                  /\ n < m
                  /\ schedule_events[n].well_batch
                        = schedule_events[m].well_batch

\* A finished run that drilled two batches and fraced two batches.
C18_Witness ==
    /\ pc = "done" /\ exc = NoExc
    /\ Cardinality(DrillEvents) = 2
    /\ Cardinality(FracEvents) = 2

\* C19: every ScheduleEvent appended by schedule() records the assignment
\* it stands for: event_start is the batch's drill_start (frac_start for a
\* crew), event_end its drill_end (frac_end), event_duration its drill
\* (frac) duration in days, so event_end = event_start + event_duration;
\* and an assignment of a batch of duration 0 gets its event too.
C19_EventFields ==
    /\ \A n \in 1..Len(schedule_events) :
          LET e == schedule_events[n]
              b == BatchNamed(e.well_batch)
          IN  /\ e.resource[1] = "Rig" =>
                    /\ e.event_start = b.drill_start
                    /\ e.event_end = b.drill_end
                    /\ e.event_duration = b.drill_duration
              /\ e.resource[1] = "FracCrew" =>
                    /\ e.event_start = b.frac_start
                    /\ e.event_end = b.frac_end
                    /\ e.event_duration = b.frac_duration
              /\ e.event_end = e.event_start + e.event_duration
    /\ exc # ExcTimedelta

\* The resources of both pools, each identified by its kind and name.
AllResources ==
    {rigs[k] : k \in 1..Len(rigs)} \cup {frac_crews[k] : k \in 1..Len(frac_crews)}

ResourceOf(S, ref) == CHOOSE r \in S : ResourceRef(r) = ref

\* The pool the running loop scans, and whether this pass finds no feasible
\* resource in it.
ScannedPool == IF pc = "drill" THEN rigs ELSE frac_crews

NoFeasible ==
    /\ pc \in {"drill", "frac"} /\ exc = NoExc
    /\ \A k \in 1..Len(ScannedPool) :
          LET r == is_valid_assignment(ScannedPool[k], well_batches[i], frac_lag)
          IN  r.exc = NoExc /\ ~r.value

CursorFrame ==
    LET before == AllResources
        after == AllResources'
        refs == {ResourceRef(r) : r \in before}
        moved == {ref \in refs : ResourceOf(after, ref) # ResourceOf(before, ref)}
        lines == SubSeq(printed', Len(printed) + 1, Len(printed'))
    IN  /\ Len(rigs') = Len(rigs)
        /\ Len(frac_crews') = Len(frac_crews)
        /\ {ResourceRef(r) : r \in after} = refs
        /\ \A ref \in refs :
              /\ ResourceOf(after, ref).start_date
                    >= ResourceOf(before, ref).start_date
              /\ ResourceOf(after, ref).end_date
                    = ResourceOf(before, ref).end_date
        /\ Cardinality(moved) <= 1
        /\ \A ref \in moved :
              /\ pc \in {"drill", "frac"}
              /\ \E n \in 1..Len(lines) :
                    /\ lines[n].msg = "assigned"
                    /\ lines[n].resource = ref
                    /\ lines[n].well_batch = well_batches[i].name
        /\ NoFeasible =>
              /\ rigs' = rigs
              /\ frac_crews' = frac_crews
              /\ schedule_events' = schedule_events

\* C20: during schedule(), with durations >= 0, no resource's start_date
\* moves backward and no resource's end_date changes; at most one resource
\* changes in a loop pass and it is the one assigned to the current batch;
\* a pass that finds no feasible resource leaves both pools and the event
\* log as they were.
C20_CursorFrame == [][CursorFrame]_vars

\* A schedule() run in which one of two rigs was picked and its cursor moved
\* while the other kept its own, and a later batch found no feasible rig.
C20_Witness ==
    /\ pc \in {"frac", "done"}
    /\ Len(rigs) = 2
    /\ Len(well_batches) = 2
    /\ Len(schedule_events) >= 1
    /\ \E n \in 1..2 : ~well_batches[n].is_drilled
    /\ \E n \in 1..2 : well_batches[n].is_drilled
    /\ \E k \in 1..2 : rigs[k].start_date > MaxDay

====
